---- MODULE Spec2Model ----
(***************************************************************************)
(* mittens: the gRPC warm-up client (pkg/grpc/client.go) and the HTTP      *)
(* request descriptor parser with its placeholder interpolation.           *)
(*                                                                         *)
(* Spec      the gRPC Client: NewClient, SendRequest (sync.Once guarded    *)
(*           connect, request building, InvokeRPC) and Close, called from  *)
(*           several goroutines.                                           *)
(* SpecHTTP  ToHTTPRequest and interpolatePlaceholders on descriptor       *)
(*           strings, character by character.                              *)
(***************************************************************************)
EXTENDS Integers, Sequences, FiniteSets, TLC

VARIABLES
    c,            \* the Client: conn, connClose, descriptorSource, grpcConnectOnce
    transport,    \* the dialled grpc.ClientConn: "none", "open", "closed"
    pc,           \* pc[t]: where goroutine t stands in SendRequest
    connErr,      \* connErr[t]: SendRequest's local connErr
    err,          \* err[t]: SendRequest's local err
    resp,         \* resp[t]: the Response SendRequest returned to t
    invokedOn,    \* invokedOn[t]: the conn handed to InvokeRPC by t's current call
    afterFailure, \* afterFailure[t]: t's current call began after a failed invocation
    calls,        \* SendRequest calls begun
    connectCalls, \* times connect was entered (the dial test double's counter)
    connectRet,   \* what connect returned: "none" (not yet), "nil", "dialErr"
    failedInvocations, \* InvokeRPC calls that returned an error
    closeCalls,   \* Close calls made
    closeRet,     \* what the last Close returned
    crashed,      \* the process died of a panic
    requestString, \* ToHTTPRequest's argument
    now,          \* what time.Now() returns during the call
    hpc,          \* where ToHTTPRequest stands
    parts,        \* ToHTTPRequest's local parts
    req,          \* the Request being returned
    herr,         \* the error ToHTTPRequest returned: "nil", "invalid"
    source,       \* the argument of the last interpolatePlaceholders call
    interp,       \* that call: "none", "returned", "panicked"
    result        \* what that call returned

grpcVars == <<c, transport, pc, connErr, err, resp, invokedOn, afterFailure, calls,
              connectCalls, connectRet, failedInvocations, closeCalls, closeRet, crashed>>

httpVars == <<requestString, now, hpc, parts, req, herr, source, interp, result>>

vars == <<grpcVars, httpVars>>

\* ---------------------------------------------------------------- bounds
NumCallers == 2
MaxCalls == 3
MaxCloses == 2
MaxElapsed == 1

Callers == 1..NumCallers

\* ---------------------------------------------------------------- gRPC client
respType == "grpc"

NoResponse == [Duration |-> 0, Err |-> "none", Type |-> "none"]

Response(duration, e) == [Duration |-> duration, Err |-> e, Type |-> respType]

\* NewClient with connClose left unset (nil func).
NewClientNoClose ==
    [conn |-> "nil", connClose |-> "nil", descriptorSource |-> "nil",
     grpcConnectOnce |-> [done |-> FALSE, m |-> 0]]

\* NewClient: a fresh Once, connClose a func returning nil, no conn, no source.
NewClient ==
    [conn |-> "nil", connClose |-> "noop", descriptorSource |-> "nil",
     grpcConnectOnce |-> [done |-> FALSE, m |-> 0]]

\* Once.doSlow entered without taking the mutex.
OnceNoLock(t) == TRUE

\* o.m.Lock() of Once.doSlow: t may take the mutex when nobody holds it.
OnceLock(t) == c.grpcConnectOnce.m = 0

\* grpcurl.RequestParserAndFormatterFor: an error for an unknown format only.
RequestParserAndFormatterFor(format) ==
    IF format \in {"json", "text"} THEN "nil" ELSE "unknownFormat"

\* The outcomes of grpcurl.InvokeRPC on (descSource, conn): with no descriptor
\* source it returns an error for a malformed method name and otherwise
\* dereferences the nil source; on a closed conn the call fails.
InvokeRPC(descSource, cc) ==
    IF descSource = "nil" THEN {"invokeErr", "panic"}
    ELSE IF cc = "nil" \/ transport # "open" THEN {"invokeErr"}
    ELSE {"nil", "invokeErr"}

\* The Response SendRequest returns when InvokeRPC failed (line 111).
InvokeFailedResponse(duration, e) == Response(duration, "nil")

\* A failed invocation that drops the client's connection.
ClientAfterInvokeDropConn(e) ==
    IF e # "nil" THEN [c EXCEPT !.conn = "nil", !.descriptorSource = "nil"] ELSE c

\* The Client after InvokeRPC returned e: SendRequest writes no field.
ClientAfterInvoke(e) == c

GrpcInit ==
    /\ c = NewClient
    /\ transport = "none"
    /\ pc = [t \in Callers |-> "idle"]
    /\ connErr = [t \in Callers |-> "nil"]
    /\ err = [t \in Callers |-> "nil"]
    /\ resp = [t \in Callers |-> NoResponse]
    /\ invokedOn = [t \in Callers |-> "none"]
    /\ afterFailure = [t \in Callers |-> FALSE]
    /\ calls = 0
    /\ connectCalls = 0
    /\ connectRet = "none"
    /\ failedInvocations = 0
    /\ closeCalls = 0
    /\ closeRet = "none"
    /\ crashed = FALSE

\* SendRequest is called (lines 85-87): var connErr error.
SendRequest(t) ==
    /\ ~crashed
    /\ UNCHANGED httpVars
    /\ pc[t] \in {"idle", "returned"}
    /\ calls < MaxCalls
    /\ calls' = calls + 1
    /\ pc' = [pc EXCEPT ![t] = "Do"]
    /\ connErr' = [connErr EXCEPT ![t] = "nil"]
    /\ err' = [err EXCEPT ![t] = "nil"]
    /\ invokedOn' = [invokedOn EXCEPT ![t] = "none"]
    /\ afterFailure' = [afterFailure EXCEPT ![t] = failedInvocations > 0]
    /\ UNCHANGED <<c, transport, resp, connectCalls, connectRet, failedInvocations,
                   closeCalls, closeRet, crashed>>

\* Once.Do: the fast path when done is set, doSlow otherwise.
OnceDo(t) ==
    /\ ~crashed
    /\ UNCHANGED httpVars
    /\ pc[t] = "Do"
    /\ pc' = [pc EXCEPT ![t] = IF c.grpcConnectOnce.done THEN "checkErr" ELSE "doSlow"]
    /\ UNCHANGED <<c, transport, connErr, err, resp, invokedOn, afterFailure, calls,
                   connectCalls, connectRet, failedInvocations, closeCalls, closeRet,
                   crashed>>

\* Once.doSlow: lock, and under the lock run f (connect) unless done is set.
OnceDoSlow(t) ==
    /\ ~crashed
    /\ UNCHANGED httpVars
    /\ pc[t] = "doSlow"
    /\ OnceLock(t)
    /\ IF c.grpcConnectOnce.done
       THEN /\ pc' = [pc EXCEPT ![t] = "checkErr"]
            /\ UNCHANGED <<c, connectCalls>>
       ELSE /\ pc' = [pc EXCEPT ![t] = "dial"]
            /\ c' = [c EXCEPT !.grpcConnectOnce.m = t]
            /\ connectCalls' = connectCalls + 1
    /\ UNCHANGED <<transport, connErr, err, resp, invokedOn, afterFailure, calls,
                   connectRet, failedInvocations, closeCalls, closeRet, crashed>>

\* connect, lines 53-71: grpc.DialContext fails; connect returns the error,
\* the closure stores it in connErr, doSlow sets done and unlocks.
ConnectDialFail(t) ==
    /\ ~crashed
    /\ UNCHANGED httpVars
    /\ pc[t] = "dial"
    /\ connErr' = [connErr EXCEPT ![t] = "dialErr"]
    /\ connectRet' = "dialErr"
    /\ c' = [c EXCEPT !.grpcConnectOnce = [done |-> TRUE, m |-> 0]]
    /\ pc' = [pc EXCEPT ![t] = "checkErr"]
    /\ UNCHANGED <<transport, err, resp, invokedOn, afterFailure, calls, connectCalls,
                   failedInvocations, closeCalls, closeRet, crashed>>

\* connect, lines 68-77: the dial succeeds, the reflection client and the
\* descriptor source are built, c.conn is stored.
ConnectStoreConn(t) ==
    /\ ~crashed
    /\ UNCHANGED httpVars
    /\ pc[t] = "dial"
    /\ transport' = "open"
    /\ c' = [c EXCEPT !.conn = "conn"]
    /\ pc' = [pc EXCEPT ![t] = "storeClose"]
    /\ UNCHANGED <<connErr, err, resp, invokedOn, afterFailure, calls, connectCalls,
                   connectRet, failedInvocations, closeCalls, closeRet, crashed>>

\* connect, line 78: c.connClose is stored.
ConnectStoreClose(t) ==
    /\ ~crashed
    /\ UNCHANGED httpVars
    /\ pc[t] = "storeClose"
    /\ c' = [c EXCEPT !.connClose = "closeConn"]
    /\ pc' = [pc EXCEPT ![t] = "storeSource"]
    /\ UNCHANGED <<transport, connErr, err, resp, invokedOn, afterFailure, calls,
                   connectCalls, connectRet, failedInvocations, closeCalls, closeRet,
                   crashed>>

\* connect, lines 79-80: c.descriptorSource is stored, connect returns nil,
\* doSlow sets done and unlocks.
ConnectStoreSource(t) ==
    /\ ~crashed
    /\ UNCHANGED httpVars
    /\ pc[t] = "storeSource"
    /\ c' = [c EXCEPT !.descriptorSource = "source",
                      !.grpcConnectOnce = [done |-> TRUE, m |-> 0]]
    /\ connectRet' = "nil"
    /\ pc' = [pc EXCEPT ![t] = "checkErr"]
    /\ UNCHANGED <<transport, connErr, err, resp, invokedOn, afterFailure, calls,
                   connectCalls, failedInvocations, closeCalls, closeRet, crashed>>

\* Lines 92-95: the local connErr decides between the error Response and
\* going on to build the request.
CheckConnErr(t) ==
    /\ ~crashed
    /\ UNCHANGED httpVars
    /\ pc[t] = "checkErr"
    /\ IF connErr[t] # "nil"
       THEN /\ resp' = [resp EXCEPT ![t] = Response(0, connErr[t])]
            /\ pc' = [pc EXCEPT ![t] = "returned"]
       ELSE /\ pc' = [pc EXCEPT ![t] = "build"]
            /\ UNCHANGED resp
    /\ UNCHANGED <<c, transport, connErr, err, invokedOn, afterFailure, calls,
                   connectCalls, connectRet, failedInvocations, closeCalls, closeRet,
                   crashed>>

\* Lines 97-106: the request parser and formatter for "json".
BuildRequest(t) ==
    /\ ~crashed
    /\ UNCHANGED httpVars
    /\ pc[t] = "build"
    /\ LET e == RequestParserAndFormatterFor("json")
       IN  /\ err' = [err EXCEPT ![t] = e]
           /\ IF e # "nil"
              THEN /\ resp' = [resp EXCEPT ![t] = Response(0, e)]
                   /\ pc' = [pc EXCEPT ![t] = "returned"]
              ELSE /\ pc' = [pc EXCEPT ![t] = "invoke"]
                   /\ UNCHANGED resp
    /\ UNCHANGED <<c, transport, connErr, invokedOn, afterFailure, calls, connectCalls,
                   connectRet, failedInvocations, closeCalls, closeRet, crashed>>

\* Lines 107-113: InvokeRPC on c.descriptorSource and c.conn, timed, and the
\* Response returned.
Invoke(t) ==
    /\ ~crashed
    /\ UNCHANGED httpVars
    /\ pc[t] = "invoke"
    /\ invokedOn' = [invokedOn EXCEPT ![t] = c.conn]
    /\ \E e \in InvokeRPC(c.descriptorSource, c.conn), elapsed \in 0..MaxElapsed :
          IF e = "panic"
          THEN /\ crashed' = TRUE
               /\ pc' = [pc EXCEPT ![t] = "panicked"]
               /\ UNCHANGED <<c, err, resp, failedInvocations>>
          ELSE /\ err' = [err EXCEPT ![t] = e]
               /\ failedInvocations' = failedInvocations + (IF e # "nil" THEN 1 ELSE 0)
               /\ c' = ClientAfterInvoke(e)
               /\ resp' = [resp EXCEPT ![t] =
                              IF e # "nil" THEN InvokeFailedResponse(elapsed, e)
                                           ELSE Response(elapsed, "nil")]
               /\ pc' = [pc EXCEPT ![t] = "returned"]
               /\ UNCHANGED crashed
    /\ UNCHANGED <<transport, connErr, afterFailure, calls, connectCalls, connectRet,
                   closeCalls, closeRet>>

\* Close (value receiver: it reads the Client's fields as they are when
\* called) runs c.connClose: the func of NewClient returns nil; the func of
\* connect cancels the context and closes the conn, which fails on a conn
\* already closed.
Close ==
    /\ ~crashed
    /\ UNCHANGED httpVars
    /\ closeCalls < MaxCloses
    /\ closeCalls' = closeCalls + 1
    /\ CASE c.connClose = "noop" ->
              /\ closeRet' = "nil"
              /\ UNCHANGED <<transport, crashed>>
         [] c.connClose = "closeConn" ->
              /\ closeRet' = IF transport = "open" THEN "nil" ELSE "closeErr"
              /\ transport' = "closed"
              /\ UNCHANGED crashed
         [] OTHER ->
              /\ closeRet' = "panic"
              /\ crashed' = TRUE
              /\ UNCHANGED transport
    /\ UNCHANGED <<c, pc, connErr, err, resp, invokedOn, afterFailure, calls,
                   connectCalls, connectRet, failedInvocations>>

GrpcNext ==
    \/ \E t \in Callers :
        \/ SendRequest(t)
        \/ OnceDo(t)
        \/ OnceDoSlow(t)
        \/ ConnectDialFail(t)
        \/ ConnectStoreConn(t)
        \/ ConnectStoreClose(t)
        \/ ConnectStoreSource(t)
        \/ CheckConnErr(t)
        \/ BuildRequest(t)
        \/ Invoke(t)
    \/ Close


\* ---------------------------------------------------------------- strings
\* A Go string is a sequence of one-character strings.
LowerLetters == <<"a", "b", "c", "d", "e", "f", "g", "h", "i", "j", "k", "l", "m", "n", "o", "p", "q", "r", "s", "t", "u", "v", "w", "x", "y", "z">>

UpperLetters == <<"A", "B", "C", "D", "E", "F", "G", "H", "I", "J", "K", "L", "M", "N", "O", "P", "Q", "R", "S", "T", "U", "V", "W", "X", "Y", "Z">>

DigitChars == <<"0", "1", "2", "3", "4", "5", "6", "7", "8", "9">>

Range(f) == {f[i] : i \in DOMAIN f}

\* F applied to the value of x, x evaluated once.
Bind(x, F(_)) == CHOOSE v \in {F(y) : y \in {x}} : TRUE

IndexIn(f, ch) == CHOOSE i \in DOMAIN f : f[i] = ch

IsDigit(ch) == ch \in Range(DigitChars)

\* \w of Go's regexp: [0-9A-Za-z_].
WordChars == Range(DigitChars) \cup Range(LowerLetters) \cup Range(UpperLetters) \cup {"_"}

IsWord(ch) == ch \in WordChars

\* strings.ToUpper.
ToUpper(s) ==
    [i \in DOMAIN s |->
        IF s[i] \in Range(LowerLetters) THEN UpperLetters[IndexIn(LowerLetters, s[i])]
        ELSE s[i]]

\* Whether lit stands in s at position i.
HasAt(s, i, lit) ==
    /\ i >= 1
    /\ i + Len(lit) - 1 <= Len(s)
    /\ SubSeq(s, i, i + Len(lit) - 1) = lit

\* strings.Contains.
Contains(s, sub) == \E i \in 1..(Len(s) + 1) : HasAt(s, i, sub)

\* The first position >= from where the character ch stands, or 0.
IndexFrom(s, from, ch) ==
    IF \E i \in from..Len(s) : s[i] = ch
    THEN CHOOSE i \in from..Len(s) : s[i] = ch /\ \A j \in from..(i - 1) : s[j] # ch
    ELSE 0

RECURSIVE Split(_, _)
\* strings.Split on the one-character separator sep.
Split(s, sep) ==
    Bind(IndexFrom(s, 1, sep), LAMBDA i :
        IF i = 0 THEN <<s>>
        ELSE Bind(SubSeq(s, i + 1, Len(s)), LAMBDA rest :
                <<SubSeq(s, 1, i - 1)>> \o Split(rest, sep)))

RECURSIVE SplitN(_, _, _)
\* strings.SplitN for n >= 1: at most n pieces, the last one the remainder.
SplitN(s, sep, n) ==
    Bind(IndexFrom(s, 1, sep), LAMBDA i :
        IF n <= 1 \/ i = 0 THEN <<s>>
        ELSE Bind(SubSeq(s, i + 1, Len(s)), LAMBDA rest :
                <<SubSeq(s, 1, i - 1)>> \o SplitN(rest, sep, n - 1)))

\* The end (exclusive) of the longest run of characters satisfying the set
\* chars that starts at position i.
RunEnd(s, i, chars) ==
    IF \E j \in i..Len(s) : s[j] \notin chars
    THEN CHOOSE j \in i..Len(s) : s[j] \notin chars /\ \A k \in i..(j - 1) : s[k] \in chars
    ELSE IF i > Len(s) THEN i ELSE Len(s) + 1

\* ---------------------------------------------------------------- integers
\* The width of Go's int in bits (64 on the platforms mittens is built for),
\* scaled down so that the arithmetic at its edge stays within TLC's integers.
IntBits == 5

MaxInt == 2 ^ (IntBits - 1) - 1

MinInt == -(2 ^ (IntBits - 1))

\* Two's complement wrap-around of int arithmetic.
WrapInt(n) == ((n - MinInt) % (2 ^ IntBits)) + MinInt

RECURSIVE DigitsValue(_, _)
\* The value of a digit string read left to right from acc, saturating just
\* past MaxInt (strconv's range check).
DigitsValue(ds, acc) ==
    IF ds = <<>> THEN acc
    ELSE Bind(acc * 10 + (IndexIn(DigitChars, Head(ds)) - 1), LAMBDA v :
            DigitsValue(Tail(ds), IF v > MaxInt + 1 THEN MaxInt + 1 ELSE v))

\* strconv.Atoi with the error dropped (min, _ := strconv.Atoi(..)): 0 for the
\* empty string, the nearest int for a value out of range.
Atoi(s) ==
    IF s = <<>> THEN 0
    ELSE LET neg == Head(s) = "-"
             ds == IF Head(s) \in {"+", "-"} THEN Tail(s) ELSE s
         IN  IF ds = <<>> THEN 0
             ELSE Bind(DigitsValue(ds, 0), LAMBDA v :
                     IF neg THEN (IF v > MaxInt THEN MinInt ELSE -v)
                     ELSE (IF v > MaxInt THEN MaxInt ELSE v))

RECURSIVE NatDigits(_)
NatDigits(n) ==
    IF n < 10 THEN <<DigitChars[n + 1]>>
    ELSE NatDigits(n \div 10) \o <<DigitChars[(n % 10) + 1]>>

\* strconv.Itoa / strconv.FormatInt(n, 10).
Itoa(n) == IF n < 0 THEN <<"-">> \o NatDigits(-n) ELSE NatDigits(n)

RECURSIVE ZeroPad(_, _)
\* A digit string padded with zeros on the left to width w.
ZeroPad(ds, w) == IF Len(ds) >= w THEN ds ELSE ZeroPad(<<"0">> \o ds, w)

\* ---------------------------------------------------------------- time
\* time.Time as the local calendar date and the Unix time in milliseconds.
IsLeap(y) == y % 4 = 0 /\ (y % 100 # 0 \/ y % 400 = 0)

\* The days of a non-leap year before each month (package time's daysBefore).
daysBefore == <<0, 31, 59, 90, 120, 151, 181, 212, 243, 273, 304, 334, 365>>

DaysBeforeMonth(m, y) == daysBefore[m] + (IF IsLeap(y) /\ m >= 3 THEN 1 ELSE 0)

\* Days from 0001-01-01 to the first day of year y.
DaysBeforeYear(y) == 365 * (y - 1) + ((y - 1) \div 4) - ((y - 1) \div 100) + ((y - 1) \div 400)

\* time.Date's normalisation: months outside 1..12 carry into the year, days
\* outside the month carry through the absolute day number.
AbsDay(year, month, day) ==
    Bind(year + ((month - 1) \div 12), LAMBDA y :
        Bind(((month - 1) % 12) + 1, LAMBDA m :
            DaysBeforeYear(y) + DaysBeforeMonth(m, y) + day - 1))

\* The calendar date of an absolute day number, looked up among years.
DateOfAbs(abs, years) ==
    Bind(CHOOSE yy \in years : DaysBeforeYear(yy) <= abs /\ abs < DaysBeforeYear(yy + 1),
         LAMBDA y :
        Bind(CHOOSE mm \in 1..12 :
                /\ DaysBeforeYear(y) + DaysBeforeMonth(mm, y) <= abs
                /\ abs < DaysBeforeYear(y) + DaysBeforeMonth(mm + 1, y),
             LAMBDA m :
            [year |-> y, month |-> m,
             day |-> abs - DaysBeforeYear(y) - DaysBeforeMonth(m, y) + 1]))

\* Time.AddDate(years, months, days).
AddDate(t, years, months, days) ==
    Bind(AbsDay(t.year + years, t.month + months, t.day + days), LAMBDA abs :
        Bind(DateOfAbs(abs, (t.year - MaxInt - 5)..(t.year + MaxInt + 5)), LAMBDA d :
            [t EXCEPT !.year = d.year, !.month = d.month, !.day = d.day]))

\* Time.Format("2006-01-02").
FormatDate(t) ==
    ZeroPad(Itoa(t.year), 4) \o <<"-">> \o ZeroPad(Itoa(t.month), 2) \o <<"-">>
        \o ZeroPad(Itoa(t.day), 2)

\* ---------------------------------------------------------------- placeholders
allowedHTTPMethods ==
    { <<"G", "E", "T">>,
      <<"H", "E", "A", "D">>,
      <<"P", "O", "S", "T">>,
      <<"P", "U", "T">>,
      <<"P", "A", "T", "C", "H">>,
      <<"D", "E", "L", "E", "T", "E">>,
      <<"C", "O", "N", "N", "E", "C", "T">>,
      <<"O", "P", "T", "I", "O", "N", "S">>,
      <<"T", "R", "A", "C", "E">> }

\* The character class [\|(?:[\w+-=,] of templatePlaceholderRegex: | ( ? : [,
\* the word characters, the range '+' to '=' and the comma.
PlaceholderClass ==
    {"|", "(", "?", ":", "["} \cup WordChars
        \cup {"+", ",", "-", ".", "/", ":", ";", "<", "="}

\* templatePlaceholderRegex tried at position i: the end (exclusive) of the
\* match, or 0. The pattern reads: "{$", word characters, one or more
\* characters of the class, any number of "]", "}".
MatchPlaceholderAt(s, i) ==
    IF /\ HasAt(s, i, <<"{", "$">>)
       /\ i + 2 <= Len(s)
       /\ IsWord(s[i + 2])
    THEN Bind(RunEnd(s, i + 3, PlaceholderClass), LAMBDA j :
            Bind(RunEnd(s, j, {"]"}), LAMBDA k :
                IF j > i + 3 /\ k <= Len(s) /\ s[k] = "}" THEN k + 1 ELSE 0))
    ELSE 0

\* The start of the leftmost match of templatePlaceholderRegex at or after
\* from, or 0.
NextPlaceholder(s, from) ==
    IF \E i \in from..Len(s) : MatchPlaceholderAt(s, i) # 0
    THEN CHOOSE i \in from..Len(s) :
            /\ MatchPlaceholderAt(s, i) # 0
            /\ \A j \in from..(i - 1) : MatchPlaceholderAt(s, j) = 0
    ELSE 0

\* The leftmost position in 1..Len(s) where the matcher M(s, i) succeeds
\* (regexp's unanchored search), or 0.
Leftmost(s, M(_, _)) ==
    IF \E i \in 1..Len(s) : M(s, i).ok
    THEN CHOOSE i \in 1..Len(s) : M(s, i).ok /\ \A j \in 1..(i - 1) : ~M(s, j).ok
    ELSE 0

NoMatch == [ok |-> FALSE]

\* templateRangeRegex at position i: {\$range\|min=(\d+),max=(\d+)}.
MatchRangeAt(s, i) ==
    LET p1 == <<"{", "$", "r", "a", "n", "g", "e", "|", "m", "i", "n", "=">>
        p2 == <<",", "m", "a", "x", "=">>
        a == i + Len(p1)
    IN  IF ~HasAt(s, i, p1) THEN NoMatch
        ELSE Bind(RunEnd(s, a, Range(DigitChars)), LAMBDA b :
                Bind(RunEnd(s, b + Len(p2), Range(DigitChars)), LAMBDA d :
                    IF /\ b > a
                       /\ HasAt(s, b, p2)
                       /\ d > b + Len(p2)
                       /\ HasAt(s, d, <<"}">>)
                    THEN [ok |-> TRUE, Min |-> SubSeq(s, a, b - 1),
                          Max |-> SubSeq(s, b + Len(p2), d - 1)]
                    ELSE NoMatch))

\* templateElementsRegex at position i: {\$random\|([,\w-]+)}.
MatchElementsAt(s, i) ==
    LET p1 == <<"{", "$", "r", "a", "n", "d", "o", "m", "|">>
        a == i + Len(p1)
    IN  IF ~HasAt(s, i, p1) THEN NoMatch
        ELSE Bind(RunEnd(s, a, WordChars \cup {",", "-"}), LAMBDA b :
                IF b > a /\ HasAt(s, b, <<"}">>)
                THEN [ok |-> TRUE, Elements |-> SubSeq(s, a, b - 1)]
                ELSE NoMatch)

\* One offset of templateDatesRegex at position i: optional commas (not for
\* days), the unit's name, a sign, digits.
MatchOffsetAt(s, i, unit, commas) ==
    Bind(IF commas THEN RunEnd(s, i, {","}) ELSE i, LAMBDA j :
        Bind(j + Len(unit), LAMBDA k :
            IF /\ HasAt(s, j, unit)
               /\ k <= Len(s)
               /\ s[k] \in {"+", "-"}
            THEN Bind(RunEnd(s, k + 1, Range(DigitChars)), LAMBDA e :
                    IF e > k + 1
                    THEN [ok |-> TRUE, end |-> e, cap |-> SubSeq(s, k, e - 1)]
                    ELSE NoMatch)
            ELSE NoMatch))

RECURSIVE OffsetStar(_, _, _, _, _)
\* (?:[,]*unit([+-]\d+))* from position i: where it ends and the group's last
\* capture (cap when the group never matched).
OffsetStar(s, i, unit, commas, cap) ==
    Bind(MatchOffsetAt(s, i, unit, commas), LAMBDA r :
        IF r.ok THEN OffsetStar(s, r.end, unit, commas, r.cap)
        ELSE [end |-> i, cap |-> cap])

RECURSIVE ModifierStar(_, _, _)
\* (?:\|(days..)*(months..)*(years..)*)* from position i.
ModifierStar(s, i, caps) ==
    IF HasAt(s, i, <<"|">>)
    THEN Bind(OffsetStar(s, i + 1, <<"d", "a", "y", "s">>, FALSE, caps.Days), LAMBDA d :
         Bind(OffsetStar(s, d.end, <<"m", "o", "n", "t", "h", "s">>, TRUE, caps.Months), LAMBDA m :
         Bind(OffsetStar(s, m.end, <<"y", "e", "a", "r", "s">>, TRUE, caps.Years), LAMBDA y :
            ModifierStar(s, y.end, [Days |-> d.cap, Months |-> m.cap, Years |-> y.cap]))))
    ELSE [end |-> i, caps |-> caps]

\* templateDatesRegex at position i.
MatchDatesAt(s, i) ==
    LET p1 == <<"{", "$", "c", "u", "r", "r", "e", "n", "t", "D", "a", "t", "e">>
    IN  IF ~HasAt(s, i, p1) THEN NoMatch
        ELSE Bind(ModifierStar(s, i + Len(p1),
                               [Days |-> <<>>, Months |-> <<>>, Years |-> <<>>]),
                  LAMBDA r :
                IF HasAt(s, r.end, <<"}">>)
                THEN [ok |-> TRUE, Days |-> r.caps.Days, Months |-> r.caps.Months,
                      Years |-> r.caps.Years]
                ELSE NoMatch)

\* ---------------------------------------------------------------- resolvers
Returned(str) == [panic |-> FALSE, out |-> str]

Panicked == [panic |-> TRUE, out |-> <<>>]

\* dateElements with the offsets handed to AddDate in the order they were
\* captured (days, months, years).
dateElementsArgsSwapped(src) ==
    Bind(Leftmost(src, MatchDatesAt), LAMBDA i :
        IF i = 0 THEN src
        ELSE Bind(MatchDatesAt(src, i), LAMBDA r :
                FormatDate(AddDate(now, Atoi(r.Days), Atoi(r.Months), Atoi(r.Years)))))

\* dateElements: no match returns the placeholder; otherwise now plus the
\* captured offsets (0 for an empty capture), formatted.
dateElements(src) ==
    Bind(Leftmost(src, MatchDatesAt), LAMBDA i :
        IF i = 0 THEN src
        ELSE Bind(MatchDatesAt(src, i), LAMBDA r :
                FormatDate(AddDate(now, Atoi(r.Years), Atoi(r.Months), Atoi(r.Days)))))

\* timestampElements: time.Now().UnixNano() / 1000000 in decimal.
timestampElements == Itoa(now.ms)

\* randomElements: every string rand.Intn may pick from the split list.
randomElements(src) ==
    Bind(Leftmost(src, MatchElementsAt), LAMBDA i :
        IF i = 0 THEN {Returned(src)}
        ELSE Bind(Split(MatchElementsAt(src, i).Elements, ","), LAMBDA list :
                {Returned(list[number + 1]) : number \in 0..(Len(list) - 1)}))

\* rangeElements: every outcome of rand.Intn(max-min+1) + min, which panics
\* on an argument <= 0.
rangeElements(src) ==
    Bind(Leftmost(src, MatchRangeAt), LAMBDA i :
        IF i = 0 THEN {Returned(src)}
        ELSE Bind(MatchRangeAt(src, i), LAMBDA r :
             Bind(Atoi(r.Min), LAMBDA min :
             Bind(Atoi(r.Max), LAMBDA max :
             Bind(WrapInt(max - min + 1), LAMBDA n :
                IF min > max THEN {Returned(src)}
                ELSE IF n <= 0 THEN {Panicked}
                ELSE {Returned(Itoa(WrapInt(number + min))) : number \in 0..(n - 1)})))))

\* The func literal of interpolatePlaceholders (lines 149-161) on one matched
\* placeholder; src is the enclosing call's source.
Resolve(templateString, src) ==
    IF Contains(templateString, <<"c", "u", "r", "r", "e", "n", "t", "D", "a", "t", "e">>)
        THEN {Returned(dateElements(templateString))}
    ELSE IF Contains(templateString, <<"c", "u", "r", "r", "e", "n", "t", "T", "i", "m", "e", "s", "t", "a", "m", "p">>)
        THEN {Returned(timestampElements)}
    ELSE IF Contains(templateString, <<"r", "a", "n", "d", "o", "m">>)
        THEN randomElements(templateString)
    ELSE IF Contains(templateString, <<"r", "a", "n", "g", "e">>)
        THEN rangeElements(templateString)
    ELSE {Returned(src)}

RECURSIVE ReplaceAllStringFunc(_, _)
\* Regexp.ReplaceAllStringFunc of templatePlaceholderRegex over src from
\* position from: the text between matches is copied, each match is replaced
\* by what the func returns, a panic in the func ends the pass.
ReplaceAllStringFunc(src, from) ==
    Bind(NextPlaceholder(src, from), LAMBDA i :
        IF i = 0 THEN {Returned(SubSeq(src, from, Len(src)))}
        ELSE Bind(MatchPlaceholderAt(src, i), LAMBDA e :
             Bind(SubSeq(src, i, e - 1), LAMBDA templateString :
                UNION {
                    IF r.panic THEN {Panicked}
                    ELSE {IF t.panic THEN Panicked
                          ELSE Returned(SubSeq(src, from, i - 1) \o r.out \o t.out) :
                            t \in ReplaceAllStringFunc(src, e)} :
                    r \in Resolve(templateString, src)})))

\* interpolatePlaceholders: every outcome of one call.
interpolatePlaceholders(src) == ReplaceAllStringFunc(src, 1)

\* ---------------------------------------------------------------- inputs
\* The largest offset (in absolute value) of the date placeholders tried.
MaxOffset == 1

\* time.Now(): month ends, a leap day, a year end.
Times ==
    { [year |-> 2024, month |-> 2, day |-> 28, ms |-> 1709078400],
      [year |-> 2024, month |-> 2, day |-> 29, ms |-> 1709164800],
      [year |-> 2023, month |-> 12, day |-> 31, ms |-> 1703980800],
      [year |-> 2024, month |-> 1, day |-> 31, ms |-> 1706659200],
      [year |-> 2023, month |-> 3, day |-> 1, ms |-> 1677628800] }

SomeTime == [year |-> 2024, month |-> 2, day |-> 28, ms |-> 1709078400]

\* Method tokens: every supported verb in some casing, and unsupported ones.
MethodTokens ==
    { <<"G", "E", "T">>,
      <<"g", "e", "t">>,
      <<"G", "e", "t">>,
      <<"h", "e", "a", "d">>,
      <<"P", "O", "S", "T">>,
      <<"p", "U", "t">>,
      <<"p", "a", "t", "c", "h">>,
      <<"D", "E", "L", "E", "T", "E">>,
      <<"c", "o", "n", "n", "e", "c", "t">>,
      <<"O", "p", "t", "i", "o", "n", "s">>,
      <<"t", "r", "a", "c", "e">>,
      <<"F", "O", "O">>,
      <<"g", "e", "t", "s">>,
      <<"G">>, <<>> }

PlainTexts ==
    { <<>>, <<"/", "x">>, <<"/", "a", "/", "b", "?", "c", "=", "d">>, <<"a", "{", "b", "}", "c">>, <<"{", "$", "b", "}">> }

\* Placeholders whose name is none of the four resolvers'.
UnknownPlaceholders ==
    { <<"{", "$", "b", "o", "g", "u", "s", "}">>,
      <<"{", "$", "b", "o", "g", "u", "s", "|", "x", "=", "1", "}">>,
      <<"{", "$", "o", "t", "h", "e", "r", "}">>,
      <<"{", "$", "n", "c", "u", "r", "r", "e", "n", "t", "T", "i", "m", "e", "s", "t", "a", "m", "p", "}">>,
      <<"{", "$", "x", "r", "a", "n", "g", "e", "}">> }

Affixes == { <<>>, <<"a">>, <<"/", "p", "?", "q", "=">> }

\* {$range|min=N,max=M} for natural numbers n, m.
RangePlaceholder(n, m) ==
    <<"{", "$", "r", "a", "n", "g", "e", "|", "m", "i", "n", "=">> \o Itoa(n) \o <<",", "m", "a", "x", "=">> \o Itoa(m) \o <<"}">>

\* The numbers tried as min and max: small ones and the edge of the int width.
RangeNumbers == {0, 1, 5, MaxInt - 1, MaxInt, MaxInt + 1, MaxInt + 3}

RandomPlaceholders ==
    { <<"{", "$", "r", "a", "n", "d", "o", "m", "|", "a", ",", "b", ",", "c", "}">>,
      <<"{", "$", "r", "a", "n", "d", "o", "m", "|", "x", "}">>,
      <<"{", "$", "r", "a", "n", "d", "o", "m", "|", "a", ",", ",", "b", "-", "c", "}">>,
      <<"{", "$", "r", "a", "n", "d", "o", "m", "}">> }

OffsetValues == (-MaxOffset)..MaxOffset

\* An offset as text: "sign" writes days+1 / days-1, "eq" writes days=1 /
\* days=-1, "eqsign" writes days=+1 / days=-1.
OffsetText(unit, n, style) ==
    unit \o (IF style = "sign" THEN (IF n < 0 THEN Itoa(n) ELSE <<"+">> \o Itoa(n))
             ELSE IF style = "eq" THEN <<"=">> \o Itoa(n)
             ELSE <<"=">> \o (IF n < 0 THEN Itoa(n) ELSE <<"+">> \o Itoa(n)))

RECURSIVE Join(_, _)
Join(strs, sep) ==
    IF strs = <<>> THEN <<>>
    ELSE IF Len(strs) = 1 THEN strs[1]
    ELSE strs[1] \o sep \o Join(Tail(strs), sep)

\* Offsets are given as <<>> (left out) or <<n>>.
OffsetChoices == {<<>>} \cup {<<n>> : n \in OffsetValues}

OffsetOf(o) == IF o = <<>> THEN 0 ELSE o[1]

\* {$currentDate}, or {$currentDate|..} with the given offsets in the order
\* days, months, years, separated by commas.
DatePlaceholder(d, m, y, style) ==
    LET items == (IF d = <<>> THEN <<>> ELSE <<OffsetText(<<"d", "a", "y", "s">>, d[1], style)>>)
                 \o (IF m = <<>> THEN <<>> ELSE <<OffsetText(<<"m", "o", "n", "t", "h", "s">>, m[1], style)>>)
                 \o (IF y = <<>> THEN <<>> ELSE <<OffsetText(<<"y", "e", "a", "r", "s">>, y[1], style)>>)
    IN  <<"{", "$", "c", "u", "r", "r", "e", "n", "t", "D", "a", "t", "e">> \o (IF items = <<>> THEN <<>> ELSE <<"|">> \o Join(items, <<",">>))
            \o <<"}">>

Styles == {"sign", "eq", "eqsign"}

\* The text in front of a date placeholder.
DateAffixes == {<<>>, <<"/", "d", "/">>}

DatePlaceholders ==
    {DatePlaceholder(d, m, y, st) : d \in OffsetChoices, m \in OffsetChoices,
                                    y \in OffsetChoices, st \in Styles}
        \cup { <<"{", "$", "c", "u", "r", "r", "e", "n", "t", "D", "a", "t", "e", "|", "y", "e", "a", "r", "s", "+", "1", ",", "d", "a", "y", "s", "+", "1", "}">>,
               <<"{", "$", "c", "u", "r", "r", "e", "n", "t", "D", "a", "t", "e", "|", "d", "a", "y", "s", "1", "}">>,
               <<"{", "$", "c", "u", "r", "r", "e", "n", "t", "D", "a", "t", "e", "|", "d", "a", "y", "s", "+", "1", "|", "m", "o", "n", "t", "h", "s", "+", "1", "}">> }

Descriptor(method, path) == method \o <<":">> \o path

DescriptorWithBody(method, path, body) == method \o <<":">> \o path \o <<":">> \o body

\* The calls tried: the descriptor and the time of the call.
Cases ==
    LET GET == <<"G", "E", "T">>
        POST == <<"p", "o", "s", "t">>
        at(strs) == {[requestString |-> d, now |-> SomeTime] : d \in strs}
    IN  at(MethodTokens)
        \cup at({Descriptor(me, p) : me \in MethodTokens, p \in PlainTexts})
        \cup at({DescriptorWithBody(me, <<"/", "x">>, b) : me \in MethodTokens,
                    b \in {<<>>, <<"b">>, <<"a", ":", "b", ":", "c">>}})
        \cup at({Descriptor(GET, a \o u \o b) : a \in Affixes, b \in Affixes,
                    u \in UnknownPlaceholders})
        \cup at({Descriptor(GET, u \o <<"/">> \o v) : u, v \in UnknownPlaceholders})
        \cup at({DescriptorWithBody(POST, <<"/", "p">>, a \o u) : a \in Affixes,
                    u \in UnknownPlaceholders \cup RandomPlaceholders})
        \cup at({Descriptor(GET, a \o RangePlaceholder(n, m)) : a \in Affixes,
                    n \in RangeNumbers, m \in RangeNumbers})
        \cup at({DescriptorWithBody(POST, <<"/", "p">>, RangePlaceholder(n, m)) :
                    n \in {0, 1}, m \in {1, MaxInt}})
        \cup at({Descriptor(GET, a \o r) : a \in Affixes,
                    r \in RandomPlaceholders \cup {<<"{", "$", "c", "u", "r", "r", "e", "n", "t", "T", "i", "m", "e", "s", "t", "a", "m", "p", "}">>}})
        \cup {[requestString |-> Descriptor(GET, a \o p), now |-> t] :
                    a \in DateAffixes, p \in DatePlaceholders, t \in Times}

\* ---------------------------------------------------------------- HTTP request
NoRequest == [Method |-> <<>>, Path |-> <<>>, Body |-> <<>>]

HttpIdle ==
    /\ requestString = <<>>
    /\ now = SomeTime
    /\ hpc = "idle"
    /\ parts = <<>>
    /\ req = NoRequest
    /\ herr = "nil"
    /\ source = <<>>
    /\ interp = "none"
    /\ result = <<>>

GrpcIdle == GrpcInit

HttpInit ==
    /\ \E k \in Cases : requestString = k.requestString /\ now = k.now
    /\ hpc = "call"
    /\ parts = <<>>
    /\ req = NoRequest
    /\ herr = "nil"
    /\ source = <<>>
    /\ interp = "none"
    /\ result = <<>>

\* ToHTTPRequest lines 54-63: split on the first two ":", upper-case and
\* validate the method.
ParseDescriptor ==
    /\ hpc = "call"
    /\ \E ps \in {SplitN(requestString, ":", 3)} : \E method \in {ToUpper(ps[1])} :
           /\ parts' = ps
           /\ IF Len(ps) < 2 \/ method \notin allowedHTTPMethods
              THEN /\ herr' = "invalid"
                   /\ hpc' = "returned"
                   /\ UNCHANGED req
              ELSE /\ req' = [req EXCEPT !.Method = method]
                   /\ hpc' = "path"
                   /\ UNCHANGED herr
    /\ UNCHANGED <<requestString, now, source, interp, result>>
    /\ UNCHANGED grpcVars

\* Lines 66-67 and 76: path := interpolatePlaceholders(parts[1]); with two
\* parts the Request is returned with a nil Body (lines 69-73).
InterpolatePath ==
    /\ hpc = "path"
    /\ source' = parts[2]
    /\ \E o \in interpolatePlaceholders(parts[2]) :
          IF o.panic
          THEN /\ interp' = "panicked"
               /\ hpc' = "panicked"
               /\ UNCHANGED <<req, result>>
          ELSE /\ interp' = "returned"
               /\ result' = o.out
               /\ req' = [req EXCEPT !.Path = o.out]
               /\ hpc' = IF Len(parts) = 2 THEN "returned" ELSE "body"
    /\ UNCHANGED <<requestString, now, parts, herr>>
    /\ UNCHANGED grpcVars

\* Lines 77-83: body := interpolatePlaceholders(parts[2]); the Request is
\* returned with Body pointing at it (here: a one-element sequence).
InterpolateBody ==
    /\ hpc = "body"
    /\ source' = parts[3]
    /\ \E o \in interpolatePlaceholders(parts[3]) :
          IF o.panic
          THEN /\ interp' = "panicked"
               /\ hpc' = "panicked"
               /\ UNCHANGED <<req, result>>
          ELSE /\ interp' = "returned"
               /\ result' = o.out
               /\ req' = [req EXCEPT !.Body = <<o.out>>]
               /\ hpc' = "returned"
    /\ UNCHANGED <<requestString, now, parts, herr>>
    /\ UNCHANGED grpcVars

HttpNext ==
    \/ ParseDescriptor
    \/ InterpolatePath
    \/ InterpolateBody

\* ---------------------------------------------------------------- HTTP claims
\* The positions of src where a placeholder span starts. A span holds no "{"
\* after its first character, so spans never overlap.
PlaceholderStarts(src) == {i \in 1..Len(src) : MatchPlaceholderAt(src, i) # 0}

\* The name of the placeholder that starts at i: the word after "{$".
PlaceholderName(src, i) == SubSeq(src, i + 2, RunEnd(src, i + 2, WordChars) - 1)

ResolverNames ==
    { <<"c", "u", "r", "r", "e", "n", "t", "D", "a", "t", "e">>,
      <<"c", "u", "r", "r", "e", "n", "t", "T", "i", "m", "e", "s", "t", "a", "m", "p">>,
      <<"r", "a", "n", "d", "o", "m">>,
      <<"r", "a", "n", "g", "e">> }

OnlyUnknownPlaceholders(src) ==
    \A i \in PlaceholderStarts(src) : PlaceholderName(src, i) \notin ResolverNames

\* C7: a source string whose placeholders all carry a name other than
\* currentDate, currentTimestamp, random and range comes back from
\* interpolatePlaceholders byte for byte, the text around the placeholders
\* included.
C7_UnknownPlaceholdersUntouched ==
    (interp # "none" /\ OnlyUnknownPlaceholders(source)) =>
        (interp = "returned" /\ result = source)

\* The descriptor's first segment and its number of ":"-delimited segments,
\* read off requestString.
FirstSegment(str) ==
    IF IndexFrom(str, 1, ":") = 0 THEN str ELSE SubSeq(str, 1, IndexFrom(str, 1, ":") - 1)

SegmentCount(str) == Cardinality({i \in 1..Len(str) : str[i] = ":"}) + 1

SupportedVerbs ==
    { <<"G", "E", "T">>,
      <<"H", "E", "A", "D">>,
      <<"P", "O", "S", "T">>,
      <<"P", "U", "T">>,
      <<"P", "A", "T", "C", "H">>,
      <<"D", "E", "L", "E", "T", "E">>,
      <<"C", "O", "N", "N", "E", "C", "T">>,
      <<"O", "P", "T", "I", "O", "N", "S">>,
      <<"T", "R", "A", "C", "E">> }

\* The upper-case form of a method token, letter by letter.
UpperCased(str) ==
    [i \in DOMAIN str |->
        IF \E k \in 1..26 : LowerLetters[k] = str[i]
        THEN UpperLetters[CHOOSE k \in 1..26 : LowerLetters[k] = str[i]]
        ELSE str[i]]

\* C8: ToHTTPRequest fails exactly when the descriptor has fewer than two
\* segments or its upper-cased first segment is no supported verb; in every
\* other case it returns a Request whose Method is the upper-cased first
\* segment.
C8_FailsExactlyOnBadDescriptor ==
    LET bad == \/ SegmentCount(requestString) < 2
               \/ UpperCased(FirstSegment(requestString)) \notin SupportedVerbs
    IN  /\ hpc # "panicked"
        /\ bad => hpc \in {"call", "returned"}
        /\ hpc = "returned" =>
              /\ herr = "invalid" <=> bad
              /\ herr = "nil" => req.Method = UpperCased(FirstSegment(requestString))

\* The range sources with the numbers and the text before the placeholder
\* they were written from.
RangeSources ==
    {[n |-> n, m |-> m, a |-> a, text |-> a \o RangePlaceholder(n, m)] :
        n \in RangeNumbers, m \in RangeNumbers, a \in Affixes}

\* C9: {$range|min=N,max=M} with N <= M resolves to an integer of N..M, with
\* N > M it is left as written, and for no N, M does the pass crash.
C9_RangeWithinBoundsNoCrash ==
    \A e \in RangeSources :
        (interp # "none" /\ source = e.text) =>
            /\ interp = "returned"
            /\ IF e.n <= e.m THEN \E r \in (e.n)..(e.m) : result = e.a \o Itoa(r)
               ELSE result = source

\* The calendar, day by day.
DaysInMonth(m, y) ==
    IF m = 2 THEN (IF IsLeap(y) THEN 29 ELSE 28)
    ELSE IF m \in {4, 6, 9, 11} THEN 30 ELSE 31

NextDay(t) ==
    IF t.day < DaysInMonth(t.month, t.year) THEN [t EXCEPT !.day = t.day + 1]
    ELSE IF t.month < 12 THEN [t EXCEPT !.day = 1, !.month = t.month + 1]
    ELSE [t EXCEPT !.day = 1, !.month = 1, !.year = t.year + 1]

PrevDay(t) ==
    IF t.day > 1 THEN [t EXCEPT !.day = t.day - 1]
    ELSE IF t.month > 1
        THEN [t EXCEPT !.day = DaysInMonth(t.month - 1, t.year), !.month = t.month - 1]
    ELSE [t EXCEPT !.day = 31, !.month = 12, !.year = t.year - 1]

RECURSIVE ShiftDays(_, _)
ShiftDays(t, k) ==
    IF k = 0 THEN t
    ELSE IF k > 0 THEN ShiftDays(NextDay(t), k - 1)
    ELSE ShiftDays(PrevDay(t), k + 1)

\* The date sources with the offsets, the style and the text before the
\* placeholder they were written from.
DateSources ==
    {[d |-> d, m |-> m, y |-> y, st |-> st, a |-> a,
      text |-> a \o DatePlaceholder(d, m, y, st)] :
        d \in OffsetChoices, m \in OffsetChoices, y \in OffsetChoices,
        st \in Styles, a \in DateAffixes}

\* C10 as stated: a currentDate placeholder with any subset of days=N,
\* months=N, years=N (N signed or not) resolves to now plus those offsets as
\* YYYY-MM-DD and is never left unresolved.
C10_EqualsSyntaxResolves ==
    \A e \in DateSources :
        (interp # "none" /\ e.st \in {"eq", "eqsign"} /\ source = e.text) =>
            /\ interp = "returned"
            /\ result = e.a \o FormatDate(AddDate(now, OffsetOf(e.y), OffsetOf(e.m),
                                                  OffsetOf(e.d)))

\* C10 amended: with the offsets written days+N / days-N (months, years
\* alike; sign mandatory, no "="), any subset in the order days, months, years,
\* the placeholder resolves to now plus those offsets as YYYY-MM-DD: days+1
\* gives the next calendar day. Written with "=", an offset makes the
\* placeholder stay as it is.
C10_SignSyntaxResolves ==
    \A e \in DateSources :
        (interp # "none" /\ source = e.text) =>
            IF e.st = "sign" \/ <<e.d, e.m, e.y>> = <<<<>>, <<>>, <<>>>>
            THEN /\ interp = "returned"
                 /\ result = e.a \o FormatDate(AddDate(now, OffsetOf(e.y), OffsetOf(e.m),
                                                       OffsetOf(e.d)))
                 /\ (e.m = <<>> /\ e.y = <<>>) =>
                       result = e.a \o FormatDate(ShiftDays(now, OffsetOf(e.d)))
                 /\ (e.d = <<>> /\ e.m = <<>> /\ ~(now.month = 2 /\ now.day = 29)) =>
                       result = e.a \o FormatDate([now EXCEPT !.year = now.year + OffsetOf(e.y)])
            ELSE interp = "returned" /\ result = source

\* {$currentDate|days+1} on 2024-02-29 has resolved to 2024-03-01.
C10_Witness ==
    /\ interp = "returned"
    /\ now.year = 2024 /\ now.month = 2 /\ now.day = 29
    /\ source = <<"{", "$", "c", "u", "r", "r", "e", "n", "t", "D", "a", "t", "e", "|", "d", "a", "y", "s", "+", "1", "}">>
    /\ result = <<"2", "0", "2", "4", "-", "0", "3", "-", "0", "1">>

\* ---------------------------------------------------------------- gRPC claims
PastOnce(t) == pc[t] \in {"checkErr", "build", "invoke", "returned", "panicked"}

InConnect(t) == pc[t] \in {"dial", "storeClose", "storeSource"}

\* C1: for one Client and any interleaving of SendRequest calls the connect
\* sequence is entered at most once, and exactly once as soon as any call has
\* got past the once-guard, whether that connect succeeded or failed.
C1_ConnectExactlyOnce ==
    /\ connectCalls <= 1
    /\ \A t \in Callers : PastOnce(t) => connectCalls = 1

\* A second call stands at the once-guard while the first call's connect is
\* still in flight.
C1_Witness ==
    \E t, u \in Callers :
        /\ t # u
        /\ InConnect(t)
        /\ pc[u] = "doSlow"
        /\ connectCalls = 1

\* C2: once the connect attempt has failed, every SendRequest on the instance
\* returns the connection error with zero duration and the protocol tag, and
\* none goes on to the remote call.
C2_ConnectErrorSticky ==
    connectRet = "dialErr" =>
        \A t \in Callers :
            /\ pc[t] \notin {"build", "invoke", "panicked"}
            /\ pc[t] = "returned" =>
                  /\ resp[t] = Response(0, "dialErr")
                  /\ invokedOn[t] = "none"

\* C3: after a successful connect the Response of a SendRequest carries the
\* error InvokeRPC returned: set when the invocation failed, empty only when
\* it succeeded.
C3_InvocationErrorReturned ==
    \A t \in Callers :
        (connectRet = "nil" /\ pc[t] = "returned") => resp[t].Err = err[t]

\* C4: a SendRequest goes past the once-guard only when the connect attempt
\* has resolved, and stands at the request-building or invocation step only
\* when conn, connClose and descriptorSource are all stored.
C4_NoDispatchBeforeConnected ==
    \A t \in Callers :
        /\ pc[t] \in {"checkErr", "build", "invoke"} => connectRet # "none"
        /\ pc[t] \in {"build", "invoke"} =>
              /\ c.conn = "conn"
              /\ c.connClose = "closeConn"
              /\ c.descriptorSource = "source"

\* C5: after a successful connect a SendRequest whose invocation fails leaves
\* conn, connClose, descriptorSource and the once-guard as they were, and
\* every SendRequest that returns has handed that same conn to InvokeRPC.
C5_InvocationFailureKeepsClient ==
    [][\A t \in Callers :
          /\ (pc[t] = "invoke" /\ pc'[t] = "returned" /\ err'[t] # "nil") => c' = c
          /\ (connectRet' = "nil" /\ pc'[t] = "returned") =>
                /\ invokedOn'[t] = "conn"
                /\ c'.conn = "conn"]_vars

\* A call begun after a failed invocation has made its remote call on the same
\* conn and succeeded.
C5_Witness ==
    \E t \in Callers :
        /\ pc[t] = "returned"
        /\ afterFailure[t]
        /\ connectRet = "nil"
        /\ invokedOn[t] = "conn"
        /\ err[t] = "nil"
        /\ resp[t].Err = "nil"

\* C6: Close on a Client on which connect was never entered returns nil and
\* changes nothing: no field of the Client, no transport, no panic, and the
\* once-guard stays unfired.
C6_CloseBeforeConnectIsNoop ==
    [][(closeCalls' # closeCalls /\ connectCalls = 0) =>
          /\ closeRet' = "nil"
          /\ c' = c
          /\ c'.grpcConnectOnce.done = FALSE
          /\ transport' = "none"
          /\ connectCalls' = 0
          /\ crashed' = FALSE]_vars

\* Close was called twice on a Client that never entered connect.
C6_Witness ==
    /\ closeCalls >= 2
    /\ connectCalls = 0
    /\ closeRet = "nil"
    /\ c = NewClient


\* ---------------------------------------------------------------- specifications
Init == GrpcInit /\ HttpIdle

Next == GrpcNext

\* The gRPC client used from NumCallers goroutines.
Spec == Init /\ [][Next]_vars

InitHTTP == HttpInit /\ GrpcIdle

NextHTTP == HttpNext

\* One ToHTTPRequest call per descriptor of Cases.
SpecHTTP == InitHTTP /\ [][NextHTTP]_vars

====
